---- MODULE Spec2Model ----
(***************************************************************************)
(* Huffman codec of src/encoding/huffman.rs and the random-access decoder  *)
(* of src/encoding/huffman_decoder.rs, as one state machine.               *)
(*                                                                         *)
(* One run of the machine is one session on one input: compress (its       *)
(* loops taken one iteration per step), then either decompress of the      *)
(* bytes compress wrote, or a HuffmanDecoder built over the stream and     *)
(* a sequence of decode calls.                                             *)
(*                                                                         *)
(* The merge sorts of src/algorithms/merge_sort.rs are a second machine    *)
(* (SortSpec): one vector, sorted by merge_sort_recursive and then by      *)
(* merge_sort_iterative.                                                   *)
(***************************************************************************)
EXTENDS Naturals, Sequences, FiniteSets, TLC

VARIABLES
    input,           \* the bytes of the input stream given to compress
    build,           \* "debug": overflow checks panic; "release": they wrap
    seed,            \* the HashMap iteration order of this run
    pc,              \* the statement the session is at
    level,           \* build_tree: the current level
    next_level,      \* build_tree: the level being built
    i,               \* build_next_level: the scan index
    tree,            \* the tree build_tree returned
    chars_to_codes,  \* the dictionary build_dictionary returned
    output,          \* the bits the BitWriter has written
    in_pos,          \* write_compressed: input bytes consumed
    bits_written,    \* write_compressed: its counter, the result of compress
    code_starts,     \* bit offset in output where each input byte's code starts
    codes_to_chars,  \* the map read_dictionary / read_header rebuilt
    rd_pos,          \* the BitReader's position (bits consumed)
    code,            \* read_char: the Code being accumulated
    decompressed,    \* the bytes written to the output of decompress / decode
    read_bits,       \* the result of decompress / decode
    fmt,             \* the header the HuffmanDecoder's stream carries
    dec_stream,      \* the bits of the stream the HuffmanDecoder reads
    dec_call         \* the last decode call: <<k, m>>

VARIABLES
    sort_pc,           \* the merge sort session: which calls have returned
    sort_input,        \* the vector as given to the merge sorts
    recursive_result,  \* the vector after merge_sort_recursive
    iterative_result   \* the vector after merge_sort_iterative

sort_vars == <<sort_pc, sort_input, recursive_result, iterative_result>>

codec_vars ==
    <<input, build, seed, pc, level, next_level, i, tree, chars_to_codes,
      output, in_pos, bits_written, code_starts, codes_to_chars, rd_pos,
      code, decompressed, read_bits, fmt, dec_stream, dec_call>>

vars == <<codec_vars, sort_vars>>

(***************************************************************************)
(* Bounds of the model.                                                    *)
(***************************************************************************)
\* longest input drawn from every sequence over Alphabet
MaxLen == 3
\* number of HashMap iteration orders tried
NumHashSeeds == 2
\* decode windows start at an original byte index below MaxOffset
MaxOffset == 3
\* decode windows span at most MaxWindow original bytes
MaxWindow == 2

Alphabet == {97, 98, 99}

Nil == [nil |-> TRUE]

(***************************************************************************)
(* Inputs.                                                                 *)
(***************************************************************************)
\* "mississippi river"
Mississippi ==
    <<109, 105, 115, 115, 105, 115, 115, 105, 112, 112, 105, 32, 114, 105, 118,
      101, 114>>

\* ten byte values 0..9 with the weights 1,1,2,4,8,16,32,64,128,256
DeepInput ==
    [p \in 1..512 |->
        IF p = 1 THEN 0 ELSE CHOOSE j \in 1..9 : 2^(j-1) < p /\ p <= 2^j]

\* every byte value once
All256 == [p \in 1..256 |-> p - 1]

SmallInputs == UNION {[1..n -> Alphabet] : n \in 0..MaxLen}

Inputs == SmallInputs \cup {Mississippi, DeepInput, All256}

(***************************************************************************)
(* Integer widths.                                                         *)
(***************************************************************************)
\* x as u8
AsU8(x) == x % 256

\* bit b of x
Bit(x, b) == (x \div (2^b)) % 2

\* x | (1 << b) for b < 8
SetBit(x, b) == IF Bit(x, b) = 1 THEN x ELSE x + 2^b

Last(s) == s[Len(s)]

(***************************************************************************)
(* HashMap<u8, _> iteration order: unspecified, fixed per run by seed.     *)
(***************************************************************************)
HashKey(s, ch) == (ch * ((1 + 126 * s) % 256) + s) % 256

ByteSeq == [p \in 1..256 |-> p - 1]

\* the keys of a map over the byte values S, in iteration order
IterOrder(s, S) ==
    SortSeq(SelectSeq(ByteSeq, LAMBDA c : c \in S),
            LAMBDA a, b : HashKey(s, a) < HashKey(s, b))

(***************************************************************************)
(* compression                                                             *)
(***************************************************************************)
Leaf(ch, w) == [chars |-> {ch}, weight |-> w, leaf |-> TRUE]

\* occurrences of ch in inp
Occurrences(inp, ch) == Cardinality({p \in DOMAIN inp : inp[p] = ch})

compute_leaves(inp, s) ==
    LET present == {inp[p] : p \in DOMAIN inp}
        order == IterOrder(s, present)
    IN  [p \in 1..Len(order) |-> Leaf(order[p], Occurrences(inp, order[p]))]

\* leaves.sort_by_key(weight): a stable sort
sort_by_weight(leaves) ==
    SortSeq(leaves, LAMBDA a, b : a.weight < b.weight)

\* new_parent that leaves the right child's weight out of the sum
new_parent_left_weight(left, right) ==
    [chars |-> left.chars \cup right.chars,
     weight |-> left.weight,
     leaf |-> FALSE, left |-> left, right |-> right]

new_parent(left, right) ==
    [chars |-> left.chars \cup right.chars,
     weight |-> left.weight + right.weight,
     leaf |-> FALSE, left |-> left, right |-> right]

\* build_tree up to its loop: compute_leaves, the sort, the two vectors
ComputeLeaves ==
    /\ pc = "start"
    /\ level' = sort_by_weight(compute_leaves(input, seed))
    /\ next_level' = <<>>
    /\ pc' = "build_tree"
    /\ UNCHANGED <<input, build, seed, i, tree, chars_to_codes, output, in_pos,
                   bits_written, code_starts, codes_to_chars, rd_pos, code,
                   decompressed, read_bits, fmt, dec_stream, dec_call>>
    /\ UNCHANGED sort_vars

\* build_tree whose found_root asks for a non-empty next_level
BuildTree_nonempty_next ==
    /\ pc = "build_tree"
    /\ IF next_level # <<>> /\ Len(level) = 1
       THEN /\ tree' = level[1]
            /\ pc' = "build_dictionary"
            /\ UNCHANGED i
       ELSE /\ i' = 0
            /\ pc' = "build_next_level"
            /\ UNCHANGED tree
    /\ UNCHANGED <<input, build, seed, level, next_level, chars_to_codes,
                   output, in_pos, bits_written, code_starts, codes_to_chars,
                   rd_pos, code, decompressed, read_bits, fmt, dec_stream,
                   dec_call>>
    /\ UNCHANGED sort_vars

\* one pass of the loop head of build_tree
BuildTree ==
    /\ pc = "build_tree"
    /\ IF next_level = <<>> /\ Len(level) = 1
       THEN /\ tree' = level[1]
            /\ pc' = "build_dictionary"
            /\ UNCHANGED i
       ELSE /\ i' = 0
            /\ pc' = "build_next_level"
            /\ UNCHANGED tree
    /\ UNCHANGED <<input, build, seed, level, next_level, chars_to_codes,
                   output, in_pos, bits_written, code_starts, codes_to_chars,
                   rd_pos, code, decompressed, read_bits, fmt, dec_stream,
                   dec_call>>
    /\ UNCHANGED sort_vars

\* build_next_level that absorbs a node only into a strictly lighter parent
BuildNextLevel_strict ==
    /\ pc = "build_next_level"
    /\ LET n == Len(level)
           last_node_in_level == i = n - 1
           new_parent_has_same_weight ==
               IF next_level # <<>>
               THEN Last(next_level).weight < level[i + 1].weight
               ELSE FALSE
       IN  IF i < n
           THEN IF last_node_in_level \/ new_parent_has_same_weight
                THEN IF next_level = <<>>
                     THEN \* next_level.last().unwrap() on None
                          /\ pc' = "panic_build_next_level"
                          /\ UNCHANGED <<level, next_level, i>>
                     ELSE /\ next_level' =
                                [next_level EXCEPT ![Len(next_level)] =
                                    new_parent(Last(next_level), level[i + 1])]
                          /\ i' = i + 1
                          /\ UNCHANGED <<pc, level>>
                ELSE /\ next_level' =
                            Append(next_level,
                                   new_parent(level[i + 1], level[i + 2]))
                     /\ i' = i + 2
                     /\ UNCHANGED <<pc, level>>
           ELSE /\ level' = next_level
                /\ next_level' = <<>>
                /\ pc' = "build_tree"
                /\ UNCHANGED i
    /\ UNCHANGED <<input, build, seed, tree, chars_to_codes, output, in_pos,
                   bits_written, code_starts, codes_to_chars, rd_pos, code,
                   decompressed, read_bits, fmt, dec_stream, dec_call>>
    /\ UNCHANGED sort_vars

\* one iteration of the scan of build_next_level; at its end build_tree
\* takes next_level as the level
BuildNextLevel ==
    /\ pc = "build_next_level"
    /\ LET n == Len(level)
           last_node_in_level == i = n - 1
           new_parent_has_same_weight ==
               IF next_level # <<>>
               THEN Last(next_level).weight <= level[i + 1].weight
               ELSE FALSE
       IN  IF i < n
           THEN IF last_node_in_level \/ new_parent_has_same_weight
                THEN IF next_level = <<>>
                     THEN \* next_level.last().unwrap() on None
                          /\ pc' = "panic_build_next_level"
                          /\ UNCHANGED <<level, next_level, i>>
                     ELSE /\ next_level' =
                                [next_level EXCEPT ![Len(next_level)] =
                                    new_parent(Last(next_level), level[i + 1])]
                          /\ i' = i + 1
                          /\ UNCHANGED <<pc, level>>
                ELSE /\ next_level' =
                            Append(next_level,
                                   new_parent(level[i + 1], level[i + 2]))
                     /\ i' = i + 2
                     /\ UNCHANGED <<pc, level>>
           ELSE /\ level' = next_level
                /\ next_level' = <<>>
                /\ pc' = "build_tree"
                /\ UNCHANGED i
    /\ UNCHANGED <<input, build, seed, tree, chars_to_codes, output, in_pos,
                   bits_written, code_starts, codes_to_chars, rd_pos, code,
                   decompressed, read_bits, fmt, dec_stream, dec_call>>
    /\ UNCHANGED sort_vars

\* the low 8 bits of a BitSet's first word, the BitSet held as a number
as_slice_0_u8(bits) == AsU8(bits)

\* compute_code's loop from node t at depth length with the BitSet bits;
\* it ends at the leaf of ch, so assert!(tree.is_leaf()) passes
RECURSIVE compute_code_from(_, _, _, _)
compute_code_from(ch, t, length, bits) ==
    IF t.leaf
    THEN [length |-> AsU8(length), data |-> as_slice_0_u8(bits)]
    ELSE IF ch \in t.left.chars
         THEN compute_code_from(ch, t.left, length + 1, bits)
         ELSE IF ch \in t.right.chars
              THEN compute_code_from(ch, t.right, length + 1, bits + 2^length)
              ELSE [length |-> AsU8(length), data |-> as_slice_0_u8(bits)]

compute_code(ch, t) == compute_code_from(ch, t, 0, 0)

build_dictionary(t) == [ch \in t.chars |-> compute_code(ch, t)]

\* levels below the root of the deepest leaf
RECURSIVE Depth(_)
Depth(t) ==
    IF t.leaf THEN 0
    ELSE LET l == Depth(t.left)
             r == Depth(t.right)
         IN  1 + (IF l < r THEN r ELSE l)

BuildDictionary ==
    /\ pc = "build_dictionary"
    /\ chars_to_codes' = build_dictionary(tree)
    /\ pc' = "write_dictionary"
    /\ UNCHANGED <<input, build, seed, level, next_level, i, tree, output,
                   in_pos, bits_written, code_starts, codes_to_chars, rd_pos,
                   code, decompressed, read_bits, fmt, dec_stream, dec_call>>
    /\ UNCHANGED sort_vars

(***************************************************************************)
(* Bit streams: BitWriter and BitReader over a sequence of bits.           *)
(***************************************************************************)
\* write_byte: the 8 bits of b, most significant first
ByteToBits(b) == [k \in 1..8 |-> Bit(b, 8 - k)]

\* the bits of a sequence of bytes
BytesToBits(bytes) ==
    [p \in 1..(8 * Len(bytes)) |->
        Bit(bytes[((p - 1) \div 8) + 1], 7 - ((p - 1) % 8))]

\* read_byte at bit position pos (pos bits already consumed)
ReadByte(stream, pos) ==
    stream[pos + 1] * 128 + stream[pos + 2] * 64 + stream[pos + 3] * 32
    + stream[pos + 4] * 16 + stream[pos + 5] * 8 + stream[pos + 6] * 4
    + stream[pos + 7] * 2 + stream[pos + 8]

\* whether read_byte at pos succeeds
CanReadByte(stream, pos) == pos + 8 <= Len(stream)

\* the writer's last byte is filled with zero bits
PadToByte(stream) ==
    stream \o [k \in 1..((8 - (Len(stream) % 8)) % 8) |-> 0]

\* the 3-byte records of a dictionary, in the map's iteration order
DictionaryRecords(s, dict) ==
    LET order == IterOrder(s, DOMAIN dict)
    IN  [p \in 1..(3 * Len(order)) |->
            LET ch == order[((p - 1) \div 3) + 1]
            IN  CASE (p - 1) % 3 = 0 -> dict[ch].length
                  [] (p - 1) % 3 = 1 -> dict[ch].data
                  [] OTHER -> ch]

\* the bytes write_dictionary writes
write_dictionary(s, dict) ==
    <<AsU8(Cardinality(DOMAIN dict) - 1)>> \o DictionaryRecords(s, dict)

WriteDictionary ==
    /\ pc = "write_dictionary"
    /\ IF Cardinality(DOMAIN chars_to_codes) = 0 /\ build = "debug"
       THEN \* chars_to_codes.len() - 1 underflows
            /\ pc' = "panic_write_dictionary"
            /\ UNCHANGED output
       ELSE /\ output' =
                 IF Cardinality(DOMAIN chars_to_codes) = 0
                 THEN BytesToBits(<<255>>)
                 ELSE BytesToBits(write_dictionary(seed, chars_to_codes))
            /\ pc' = "write_compressed"
    /\ in_pos' = 0
    /\ bits_written' = 0
    /\ UNCHANGED <<input, build, seed, level, next_level, i, tree,
                   chars_to_codes, code_starts, codes_to_chars, rd_pos, code,
                   decompressed, read_bits, fmt, dec_stream, dec_call>>
    /\ UNCHANGED sort_vars

\* write_compressed that writes all 8 data bits whatever the length
CodeBits_whole_byte(c) == [k \in 1..8 |-> Bit(c.data, k - 1)]

\* the bits write_compressed writes for one code: bit k of the data for
\* k < length, the shift 1 << k taken on a u8
CodeBits(c) == [k \in 1..c.length |-> Bit(c.data, (k - 1) % 8)]

\* one iteration of the loop of write_compressed; at the end of the input
\* compress returns and the writer's last byte is completed
WriteCompressed ==
    /\ pc = "write_compressed"
    /\ IF in_pos < Len(input)
       THEN LET c == chars_to_codes[input[in_pos + 1]]
            IN  IF c.length > 8 /\ build = "debug"
                THEN \* 1 << i overflows the u8 at i = 8
                     /\ output' = output \o SubSeq(CodeBits(c), 1, 8)
                     /\ bits_written' = bits_written + 8
                     /\ pc' = "panic_write_compressed"
                     /\ UNCHANGED <<in_pos, code_starts>>
                ELSE /\ output' = output \o CodeBits(c)
                     /\ bits_written' = bits_written + Len(CodeBits(c))
                     /\ code_starts' = Append(code_starts, Len(output))
                     /\ in_pos' = in_pos + 1
                     /\ UNCHANGED pc
       ELSE /\ output' = PadToByte(output)
            /\ pc' = "compressed"
            /\ UNCHANGED <<in_pos, bits_written, code_starts>>
    /\ UNCHANGED <<input, build, seed, level, next_level, i, tree,
                   chars_to_codes, codes_to_chars, rd_pos, code, decompressed,
                   read_bits, fmt, dec_stream, dec_call>>
    /\ UNCHANGED sort_vars

(***************************************************************************)
(* decompression                                                           *)
(***************************************************************************)
\* record r (from 0) of a header whose records start at bit position base
HeaderRecord(stream, base, r) ==
    [length |-> ReadByte(stream, base + 24 * r),
     data |-> ReadByte(stream, base + 24 * r + 8),
     ch |-> ReadByte(stream, base + 24 * r + 16)]

\* the map built by inserting len records in order: a later record
\* replaces an earlier one with the same Code
InsertRecords(stream, base, len) ==
    LET rec(r) == HeaderRecord(stream, base, r)
        keys == {[length |-> rec(r).length, data |-> rec(r).data] :
                    r \in 0..(len - 1)}
    IN  [c \in keys |->
            LET r == CHOOSE r \in 0..(len - 1) :
                        /\ rec(r).length = c.length
                        /\ rec(r).data = c.data
                        /\ \A q \in (r + 1)..(len - 1) :
                              ~(rec(q).length = c.length /\ rec(q).data = c.data)
            IN  rec(r).ch]

\* read_dictionary's len: max_index + 1 on a u8
read_dictionary_len(max_index) == AsU8(max_index + 1)

\* decompress up to the loop of read_compressed: read_dictionary
ReadDictionary ==
    /\ pc = "compressed"
    /\ IF ~CanReadByte(output, 0)
       THEN /\ pc' = "error"
            /\ UNCHANGED <<codes_to_chars, rd_pos>>
       ELSE LET max_index == ReadByte(output, 0)
                len == read_dictionary_len(max_index)
            IN  IF max_index + 1 > 255 /\ build = "debug"
                THEN \* max_index + 1 overflows the u8
                     /\ pc' = "panic_read_dictionary"
                     /\ UNCHANGED <<codes_to_chars, rd_pos>>
                ELSE IF 8 + 24 * len > Len(output)
                     THEN /\ pc' = "error"
                          /\ UNCHANGED <<codes_to_chars, rd_pos>>
                     ELSE /\ codes_to_chars' = InsertRecords(output, 8, len)
                          /\ rd_pos' = 8 + 24 * len
                          /\ pc' = "read_compressed"
    /\ code' = [length |-> 0, data |-> 0]
    /\ decompressed' = <<>>
    /\ read_bits' = 0
    /\ UNCHANGED <<input, build, seed, level, next_level, i, tree,
                   chars_to_codes, output, in_pos, bits_written, code_starts,
                   fmt, dec_stream, dec_call>>
    /\ UNCHANGED sort_vars

\* whether read_char's loop body panics on the bit `data`: 1 << code.length
\* and code.length += 1 are u8 operations, checked in a debug build
read_char_panics(c, data, b) ==
    b = "debug" /\ ((data = 1 /\ c.length >= 8) \/ c.length = 255)

\* the Code after read_char's loop body on the bit `data`; a release build
\* masks the shift amount and wraps the length
read_char_step(c, data) ==
    [length |-> AsU8(c.length + 1),
     data |-> IF data = 1 THEN SetBit(c.data, c.length % 8) ELSE c.data]

\* one bit of read_compressed: read_char reads it, and on a match
\* read_compressed writes the byte and calls read_char anew
ReadCompressed ==
    /\ pc = "read_compressed"
    /\ IF rd_pos >= Len(output)
       THEN /\ read_bits' = Len(decompressed) * 8
            /\ pc' = "decompressed"
            /\ UNCHANGED <<rd_pos, code, decompressed>>
       ELSE LET c == read_char_step(code, output[rd_pos + 1])
            IN  /\ rd_pos' = rd_pos + 1
                /\ IF read_char_panics(code, output[rd_pos + 1], build)
                   THEN /\ pc' = "panic_read_char"
                        /\ UNCHANGED <<code, decompressed>>
                   ELSE IF c \in DOMAIN codes_to_chars
                        THEN /\ decompressed' =
                                  Append(decompressed, codes_to_chars[c])
                             /\ code' = [length |-> 0, data |-> 0]
                             /\ UNCHANGED pc
                        ELSE /\ code' = c
                             /\ UNCHANGED <<pc, decompressed>>
                /\ UNCHANGED read_bits
    /\ UNCHANGED <<input, build, seed, level, next_level, i, tree,
                   chars_to_codes, output, in_pos, bits_written, code_starts,
                   codes_to_chars, fmt, dec_stream, dec_call>>
    /\ UNCHANGED sort_vars

(***************************************************************************)
(* HuffmanDecoder                                                          *)
(***************************************************************************)
\* write of a 16-bit unsigned integer, most significant byte first
U16ToBits(x) == ByteToBits(x \div 256) \o ByteToBits(x % 256)

\* read_u16 at bit position pos
ReadU16(stream, pos) == ReadByte(stream, pos) * 256 + ReadByte(stream, pos + 8)

\* the bits after the header bytes of the stream compress wrote
Payload(stream, dict) ==
    SubSeq(stream, 8 + 24 * Cardinality(DOMAIN dict) + 1, Len(stream))

\* the stream of the random-access path: a 16-bit count, the records, the
\* payload
RandomAccessStream(s, dict, stream) ==
    U16ToBits(Cardinality(DOMAIN dict))
    \o BytesToBits(DictionaryRecords(s, dict))
    \o Payload(stream, dict)

\* HuffmanDecoder::new over a stream with header f: read_header
DecoderNew(f) ==
    /\ pc = "compressed"
    /\ fmt' = f
    /\ LET stream == IF f = "u16"
                     THEN RandomAccessStream(seed, chars_to_codes, output)
                     ELSE output
           dict_length == ReadU16(stream, 0)
       IN  /\ dec_stream' = stream
           /\ IF Len(stream) < 16 \/ Len(stream) < 16 + 24 * dict_length
              THEN \* "Failed to read the header"
                   /\ pc' = "decoder_error"
                   /\ UNCHANGED <<codes_to_chars, rd_pos>>
              ELSE /\ codes_to_chars' = InsertRecords(stream, 16, dict_length)
                   /\ rd_pos' = 16 + 24 * dict_length
                   /\ pc' = "decoder_ready"
    /\ UNCHANGED <<input, build, seed, level, next_level, i, tree,
                   chars_to_codes, output, in_pos, bits_written, code_starts,
                   code, decompressed, read_bits, dec_call>>
    /\ UNCHANGED sort_vars

\* HuffmanDecoder::read_char from bit position pos with the Code c so far:
\* the byte, the position after it, and whether it ended in a panic or at
\* the end of the stream (None)
RECURSIVE decoder_read_char(_, _, _, _, _)
decoder_read_char(stream, dict, b, pos, c) ==
    IF pos >= Len(stream)
    THEN [end |-> "none", ch |-> 0, pos |-> pos]
    ELSE IF read_char_panics(c, stream[pos + 1], b)
         THEN [end |-> "panic", ch |-> 0, pos |-> pos + 1]
         ELSE LET c2 == read_char_step(c, stream[pos + 1])
              IN  IF c2 \in DOMAIN dict
                  THEN [end |-> "some", ch |-> dict[c2], pos |-> pos + 1]
                  ELSE decoder_read_char(stream, dict, b, pos + 1, c2)

\* the loop of decode: original_length_bytes - read_bytes bytes still to
\* read from pos, out written so far; None is unreachable!()
RECURSIVE decode_loop(_, _, _, _, _, _)
decode_loop(stream, dict, b, pos, todo, out) ==
    IF todo = 0
    THEN [end |-> "ok", out |-> out, pos |-> pos]
    ELSE LET r == decoder_read_char(stream, dict, b, pos,
                                    [length |-> 0, data |-> 0])
         IN  IF r.end = "some"
             THEN decode_loop(stream, dict, b, r.pos, todo - 1,
                              Append(out, r.ch))
             ELSE [end |-> "panic", out |-> out, pos |-> r.pos]

\* the bit position in the decoder's stream where the code of original
\* byte k (from 0) starts
OffsetOfByte(k) ==
    (IF k < Len(code_starts) THEN code_starts[k + 1]
     ELSE 8 + 24 * Cardinality(DOMAIN chars_to_codes) + bits_written)
    + (IF fmt = "u16" THEN 8 ELSE 0)

\* decode(output, OffsetOfByte(k), original_length_bits), into a fresh sink
Decode(k, original_length_bits) ==
    /\ pc = "decoder_ready"
    /\ dec_call' = <<k, original_length_bits>>
    /\ IF original_length_bits = 0
       THEN /\ decompressed' = <<>>
            /\ read_bits' = 0
            /\ UNCHANGED <<pc, rd_pos>>
       ELSE LET r == decode_loop(dec_stream, codes_to_chars, build,
                                 OffsetOfByte(k), original_length_bits \div 8,
                                 <<>>)
            IN  /\ decompressed' = r.out
                /\ rd_pos' = r.pos
                /\ IF r.end = "ok"
                   THEN /\ read_bits' = Len(r.out) * 8
                        /\ UNCHANGED pc
                   ELSE /\ pc' = "panic_decode"
                        /\ UNCHANGED read_bits
    /\ UNCHANGED <<input, build, seed, level, next_level, i, tree,
                   chars_to_codes, output, in_pos, bits_written, code_starts,
                   codes_to_chars, code, fmt, dec_stream>>
    /\ UNCHANGED sort_vars

Init ==
    /\ input \in Inputs
    /\ build \in {"debug", "release"}
    /\ seed \in 0..(NumHashSeeds - 1)
    /\ pc = "start"
    /\ level = <<>>
    /\ next_level = <<>>
    /\ i = 0
    /\ tree = Nil
    /\ chars_to_codes = <<>>
    /\ output = <<>>
    /\ in_pos = 0
    /\ bits_written = 0
    /\ code_starts = <<>>
    /\ codes_to_chars = <<>>
    /\ rd_pos = 0
    /\ code = [length |-> 0, data |-> 0]
    /\ decompressed = <<>>
    /\ read_bits = 0
    /\ fmt = "none"
    /\ dec_stream = <<>>
    /\ dec_call = <<>>
    /\ sort_pc = "idle"
    /\ sort_input = <<>>
    /\ recursive_result = <<>>
    /\ iterative_result = <<>>

Next ==
    \/ ComputeLeaves
    \/ BuildTree
    \/ BuildNextLevel
    \/ BuildDictionary
    \/ WriteDictionary
    \/ WriteCompressed
    \/ ReadDictionary
    \/ ReadCompressed
    \/ \E f \in {"u8", "u16"} : DecoderNew(f)
    \/ \E k \in 0..(MaxOffset - 1), m \in 0..MaxWindow :
          /\ k + m <= Len(input)
          /\ Decode(k, 8 * m)

Spec == Init /\ [][Next]_vars

\* the sessions on the short inputs
ShortInit == Init /\ Len(input) <= Len(Mississippi)

\* the session is one thread that runs each call to its end
FairSpec == ShortInit /\ [][Next]_vars /\ WF_vars(Next)

(***************************************************************************)
(* Merge sort (src/algorithms/merge_sort.rs).  Vectors are sequences; the  *)
(* code's index k is position k + 1.                                       *)
(***************************************************************************)
\* the longest vector of the exhaustive inputs
MaxSortLen == 4

\* the element values of the exhaustive inputs
SortValues == {0, 1, 2}

\* the vector of tests::simple
TestVector == <<4, 2, 8, 9, 3, 1, 0, 5, 6, 7>>

SortInputs ==
    UNION {[1..n -> SortValues] : n \in 0..MaxSortLen} \cup {TestVector}

\* Bounds = Range<usize>: start..end
Bounds(start, end) == [start |-> start, end |-> end]

\* Range::len
bounds_len(bounds) ==
    IF bounds.start < bounds.end THEN bounds.end - bounds.start ELSE 0

\* split: every call site has bounds.len() > 1, so the assert holds and
\* n / 2 - 1 does not go below zero
split(bounds) ==
    LET n == bounds_len(bounds)
        half == n \div 2 - 1
        left == Bounds(bounds.start, bounds.start + half + 1)
        right == Bounds(left.end, bounds.end)
    IN  <<left, right>>

\* the loops of merge with the comparison turned round
RECURSIVE merge_loop_greater_first(_, _, _, _, _, _)
merge_loop_greater_first(v, li, rj, left_end, right_end, result) ==
    IF li < left_end /\ rj < right_end
    THEN IF v[li + 1] > v[rj + 1]
         THEN merge_loop_greater_first(v, li + 1, rj, left_end, right_end,
                                       Append(result, v[li + 1]))
         ELSE merge_loop_greater_first(v, li, rj + 1, left_end, right_end,
                                       Append(result, v[rj + 1]))
    ELSE IF li < left_end
    THEN merge_loop_greater_first(v, li + 1, rj, left_end, right_end,
                                  Append(result, v[li + 1]))
    ELSE IF rj < right_end
    THEN merge_loop_greater_first(v, li, rj + 1, left_end, right_end,
                                  Append(result, v[rj + 1]))
    ELSE result

\* the three while loops of merge: the smaller head first (the right one
\* on a tie), then the rest of the left half, then the rest of the right
RECURSIVE merge_loop(_, _, _, _, _, _)
merge_loop(v, li, rj, left_end, right_end, result) ==
    IF li < left_end /\ rj < right_end
    THEN IF v[li + 1] < v[rj + 1]
         THEN merge_loop(v, li + 1, rj, left_end, right_end,
                         Append(result, v[li + 1]))
         ELSE merge_loop(v, li, rj + 1, left_end, right_end,
                         Append(result, v[rj + 1]))
    ELSE IF li < left_end
    THEN merge_loop(v, li + 1, rj, left_end, right_end,
                    Append(result, v[li + 1]))
    ELSE IF rj < right_end
    THEN merge_loop(v, li, rj + 1, left_end, right_end,
                    Append(result, v[rj + 1]))
    ELSE result

merge(v, bounds) ==
    LET halves == split(bounds)
        left == halves[1]
        right == halves[2]
    IN  merge_loop(v, left.start, right.start, left.end, right.end, <<>>)

\* merge_and_update: a[bounds.start + i] = merged[i]
merge_and_update(v, bounds) ==
    LET merged == merge(v, bounds)
    IN  [p \in 1..Len(v) |->
            IF bounds.start < p /\ p <= bounds.start + Len(merged)
            THEN merged[p - bounds.start]
            ELSE v[p]]

\* helper of merge_sort_recursive on r = [ok, vec]; ok is FALSE once
\* assert!(bounds.start < bounds.end) has failed
RECURSIVE helper(_, _)
helper(r, bounds) ==
    IF ~r.ok THEN r
    ELSE IF ~(bounds.start < bounds.end) THEN [ok |-> FALSE, vec |-> r.vec]
    ELSE IF bounds_len(bounds) > 1
    THEN LET halves == split(bounds)
             h == helper(helper(r, halves[1]), halves[2])
         IN  IF h.ok
             THEN [ok |-> TRUE, vec |-> merge_and_update(h.vec, bounds)]
             ELSE h
    ELSE r

merge_sort_recursive(v) ==
    LET n == Len(v)
    IN  IF n > 1
        THEN helper([ok |-> TRUE, vec |-> v], Bounds(0, n))
        ELSE [ok |-> TRUE, vec |-> v]

\* the first loop of merge_sort_iterative: queue.pop() takes the bounds
\* pushed last; the stack collects every bounds longer than one
RECURSIVE queue_loop(_, _)
queue_loop(queue, stack) ==
    IF queue = <<>> THEN stack
    ELSE LET bounds == Last(queue)
             popped == SubSeq(queue, 1, Len(queue) - 1)
         IN  IF bounds_len(bounds) > 1
             THEN LET halves == split(bounds)
                  IN  queue_loop(popped \o <<halves[1], halves[2]>>,
                                 Append(stack, bounds))
             ELSE queue_loop(popped, stack)

\* the second loop of merge_sort_iterative: merge the bounds of the stack,
\* the one pushed last first
RECURSIVE stack_loop(_, _)
stack_loop(v, stack) ==
    IF stack = <<>> THEN v
    ELSE LET bounds == Last(stack)
             popped == SubSeq(stack, 1, Len(stack) - 1)
         IN  IF bounds_len(bounds) > 1
             THEN stack_loop(merge_and_update(v, bounds), popped)
             ELSE stack_loop(v, popped)

merge_sort_iterative(v) ==
    LET n == Len(v)
    IN  IF n <= 1 THEN v
        ELSE stack_loop(v, queue_loop(<<Bounds(0, n)>>, <<>>))

MergeSortRecursive ==
    /\ sort_pc = "start"
    /\ LET r == merge_sort_recursive(sort_input)
       IN  IF r.ok
           THEN /\ recursive_result' = r.vec
                /\ sort_pc' = "recursive_done"
           ELSE /\ sort_pc' = "panic_merge_sort"
                /\ UNCHANGED recursive_result
    /\ UNCHANGED <<sort_input, iterative_result>>
    /\ UNCHANGED codec_vars

MergeSortIterative ==
    /\ sort_pc = "recursive_done"
    /\ iterative_result' = merge_sort_iterative(sort_input)
    /\ sort_pc' = "done"
    /\ UNCHANGED <<sort_input, recursive_result>>
    /\ UNCHANGED codec_vars

\* a merge sort session: no codec call is made
SortInit ==
    /\ sort_pc = "start"
    /\ sort_input \in SortInputs
    /\ recursive_result = <<>>
    /\ iterative_result = <<>>
    /\ input = <<>>
    /\ build = "debug"
    /\ seed = 0
    /\ pc = "idle"
    /\ level = <<>>
    /\ next_level = <<>>
    /\ i = 0
    /\ tree = Nil
    /\ chars_to_codes = <<>>
    /\ output = <<>>
    /\ in_pos = 0
    /\ bits_written = 0
    /\ code_starts = <<>>
    /\ codes_to_chars = <<>>
    /\ rd_pos = 0
    /\ code = [length |-> 0, data |-> 0]
    /\ decompressed = <<>>
    /\ read_bits = 0
    /\ fmt = "none"
    /\ dec_stream = <<>>
    /\ dec_call = <<>>

SortNext ==
    \/ MergeSortRecursive
    \/ MergeSortIterative

SortSpec == SortInit /\ [][SortNext]_vars

(***************************************************************************)
(* Properties.                                                             *)
(***************************************************************************)
\* the distinct byte values of the input
DistinctValues == {input[p] : p \in DOMAIN input}

\* the number of entries of the dictionary compress built
DictionarySize == Cardinality(DOMAIN chars_to_codes)

\* C1: round trip: once decompress has returned on the bytes compress
\* wrote, the bytes it wrote are exactly the input and its result is
\* 8 * len(input).
C1_RoundTrip ==
    pc = "decompressed" =>
        /\ decompressed = input
        /\ read_bits = 8 * Len(input)

\* C2: trailing padding is ignored: when the payload does not end on a
\* byte boundary, decompress returns having written exactly one byte per
\* code compress wrote (one per input byte), the padding producing none.
C2_PaddingIgnored ==
    (pc = "decompressed" /\ bits_written % 8 # 0) =>
        Len(decompressed) = Len(input)

\* C3: code-length limit: when the tree places some leaf deeper than 8
\* levels, compression fails before any dictionary header is written, so
\* nothing has been written to the output.
C3_DeepTreeFails ==
    (pc \in {"write_dictionary", "write_compressed", "compressed",
              "panic_write_compressed"}
     /\ Depth(tree) > 8) =>
        output = <<>>

\* the first n bits of a code (its low n data bits), as a number
LeadingBits(c, n) == c.data % (2^n)

\* C4: prefix-free codes: in the dictionary build_dictionary returned, no
\* two distinct byte values have the same (length, data) pair, and the low
\* `length` bits of a shorter code are never the leading bits of a longer
\* one.
C4_PrefixFree ==
    pc = "write_dictionary" =>
        \A a, b \in DOMAIN chars_to_codes :
            a # b =>
                /\ chars_to_codes[a] # chars_to_codes[b]
                /\ chars_to_codes[a].length < chars_to_codes[b].length =>
                       LeadingBits(chars_to_codes[a], chars_to_codes[a].length)
                       # LeadingBits(chars_to_codes[b],
                                     chars_to_codes[a].length)

\* C5: random-access equivalence: after any decode call at the bit
\* position where the code of original byte k starts, for 8*m bits, the
\* bytes written are exactly original bytes k .. k+m-1, whatever calls
\* came before on the same decoder.
C5_RandomAccess ==
    (pc \in {"decoder_ready", "panic_decode"} /\ dec_call # <<>>) =>
        decompressed =
            SubSeq(input, dec_call[1] + 1, dec_call[1] + (dec_call[2] \div 8))

\* C6: empty input: compress on a zero-length input terminates (and the
\* header it has then written describes at most one entry, with no payload
\* bits after it).
C6_EmptyTerminates ==
    (input = <<>>) ~> (pc = "compressed" /\ DictionarySize <= 1
                       /\ bits_written = 0)

\* C7: single-symbol input: for an input with exactly one distinct byte
\* value no code of length 0 is assigned; the single entry's code has
\* length at least 1 and every input byte contributes a payload bit.
C7_SingleSymbolCode ==
    Cardinality(DistinctValues) = 1 =>
        /\ \A ch \in DOMAIN chars_to_codes : chars_to_codes[ch].length >= 1
        /\ pc = "compressed" => bits_written >= Len(input)

\* whether inv is the inverse (Code to byte value) of the dictionary dict
IsInverse(inv, dict) ==
    /\ DOMAIN inv = {dict[ch] : ch \in DOMAIN dict}
    /\ \A ch \in DOMAIN dict : inv[dict[ch]] = ch

\* whether no two byte values of dict have the same Code
DistinctCodes(dict) ==
    \A a, b \in DOMAIN dict : a # b => dict[a] # dict[b]

\* C8: dictionary header round trip: for a dictionary of 1 to 256 entries
\* (with distinct codes) the header is one byte (size - 1) and size 3-byte
\* records, and read_dictionary on it returns the inverse of the written
\* mapping, having read exactly size records.
C8_DictionaryRoundTrip ==
    (DictionarySize \in 1..256 /\ DistinctCodes(chars_to_codes)) =>
        /\ pc = "compressed" =>
              /\ ReadByte(output, 0) = DictionarySize - 1
              /\ Len(output) = 8 + 24 * DictionarySize
                               + Len(PadToByte([k \in 1..bits_written |-> 0]))
        /\ pc = "read_compressed" =>
              /\ IsInverse(codes_to_chars, chars_to_codes)
              /\ rd_pos >= 8 + 24 * DictionarySize
        /\ pc # "panic_read_dictionary"

\* every node of t has the weight of its chars in the input; a leaf has one
\* byte value, an internal node the union and the sum of its children
RECURSIVE WellWeighted(_)
WellWeighted(t) ==
    /\ t.weight = Cardinality({p \in DOMAIN input : input[p] \in t.chars})
    /\ IF t.leaf
       THEN Cardinality(t.chars) = 1
       ELSE /\ t.chars = t.left.chars \cup t.right.chars
            /\ t.weight = t.left.weight + t.right.weight
            /\ WellWeighted(t.left)
            /\ WellWeighted(t.right)

RECURSIVE NumLeaves(_)
NumLeaves(t) == IF t.leaf THEN 1 ELSE NumLeaves(t.left) + NumLeaves(t.right)

\* C9: node weights: in the tree build_tree returned, every node's weight
\* is the number of occurrences in the input of the byte values of its
\* chars; there is one leaf per distinct byte value, and the root has all
\* of them and the weight len(input).
C9_NodeWeights ==
    pc = "build_dictionary" =>
        /\ WellWeighted(tree)
        /\ NumLeaves(tree) = Cardinality(DistinctValues)
        /\ tree.chars = DistinctValues
        /\ tree.weight = Len(input)

\* build_tree has returned the tree of "mississippi river", of weight 17
C9_Witness ==
    /\ pc = "build_dictionary"
    /\ input = Mississippi
    /\ tree.weight = 17
    /\ tree.left.weight = 6
    /\ tree.right.weight = 11

\* C10: compression shrinks the payload: for an input with at least 2 and
\* fewer than 256 distinct byte values whose tree is at most 8 levels deep,
\* the result of compress counts the payload bits only and is strictly
\* less than 8 * len(input), and so than the result of decompress.
C10_CompressionShrinks ==
    (/\ pc \in {"compressed", "decompressed"}
     /\ Cardinality(DistinctValues) >= 2
     /\ Cardinality(DistinctValues) < 256
     /\ Depth(tree) <= 8) =>
        /\ bits_written < 8 * Len(input)
        /\ Len(output) - (8 + 24 * DictionarySize + bits_written) \in 0..7
        /\ pc = "decompressed" => bits_written < read_bits

\* "mississippi river" compressed to 48 payload bits and decompressed
C10_Witness ==
    /\ pc = "decompressed"
    /\ input = Mississippi
    /\ bits_written = 48
    /\ read_bits = 8 * 17

\* v is in ascending order
Ascending(v) == \A p \in 1..(Len(v) - 1) : v[p] <= v[p + 1]

\* the number of positions of v that hold x
CountOf(v, x) == Cardinality({p \in DOMAIN v : v[p] = x})

\* v and w have the same length and hold the same elements, each as often
Permutation(v, w) ==
    /\ Len(v) = Len(w)
    /\ \A x \in {v[p] : p \in DOMAIN v} \cup {w[p] : p \in DOMAIN w} :
          CountOf(v, x) = CountOf(w, x)

\* C11: merge sort: no assert of the recursion fails; merge_sort_recursive
\* and merge_sort_iterative each leave an ascending permutation of the
\* vector they were given (the empty and the one-element vector included),
\* and so the two results are equal.
C11_MergeSort ==
    /\ sort_pc # "panic_merge_sort"
    /\ sort_pc \in {"recursive_done", "done"} =>
          /\ Ascending(recursive_result)
          /\ Permutation(recursive_result, sort_input)
    /\ sort_pc = "done" =>
          /\ Ascending(iterative_result)
          /\ Permutation(iterative_result, sort_input)
          /\ iterative_result = recursive_result

\* both sorts have returned on the vector of tests::simple, which was not
\* in order, with the numbers 0..9 in order
C11_Witness ==
    /\ sort_pc = "done"
    /\ sort_input = TestVector
    /\ ~Ascending(sort_input)
    /\ recursive_result = <<0, 1, 2, 3, 4, 5, 6, 7, 8, 9>>
    /\ iterative_result = <<0, 1, 2, 3, 4, 5, 6, 7, 8, 9>>

\* build_next_level is at the top of its while loop with a node to scan
ScanStep == pc = "build_next_level" /\ i < Len(level)

\* the most recently built node of the next level is no heavier than the
\* current node
ParentNotHeavier ==
    /\ next_level # <<>>
    /\ next_level[Len(next_level)].weight <= level[i + 1].weight

\* the step put the current node under the most recently built node of the
\* next level, as its right child, and advanced the scan by one
MergedIntoParent ==
    /\ next_level # <<>>
    /\ Len(next_level') = Len(next_level)
    /\ \A p \in 1..(Len(next_level) - 1) : next_level'[p] = next_level[p]
    /\ ~next_level'[Len(next_level)].leaf
    /\ next_level'[Len(next_level)].left = next_level[Len(next_level)]
    /\ next_level'[Len(next_level)].right = level[i + 1]
    /\ i' = i + 1

\* the step built a new node of the next level from the current node and
\* its right neighbour and advanced the scan by two
PairedWithNeighbour ==
    /\ Len(next_level') = Len(next_level) + 1
    /\ \A p \in 1..Len(next_level) : next_level'[p] = next_level[p]
    /\ ~next_level'[Len(next_level) + 1].leaf
    /\ next_level'[Len(next_level) + 1].left = level[i + 1]
    /\ next_level'[Len(next_level) + 1].right = level[i + 2]
    /\ i' = i + 2

\* C12 as stated: the current node is merged into the most recently built
\* node of the next level if and only if that node is no heavier than the
\* current node; in every other case it is paired with its right neighbour.
C12_MergeIffNotHeavier ==
    [][ScanStep =>
          IF ParentNotHeavier THEN MergedIntoParent
                              ELSE PairedWithNeighbour]_vars

\* C12: merge policy of build_next_level: the current node is merged into
\* the most recently built node of the next level if and only if that node
\* is no heavier than the current node or the current node is the last
\* node of the level (scan advances by one); in every other case the
\* current node is paired with its right neighbour (scan advances by two).
C12_MergePolicy ==
    [][ScanStep =>
          IF ParentNotHeavier \/ i = Len(level) - 1
          THEN MergedIntoParent
          ELSE PairedWithNeighbour]_vars

\* a scan has ended by merging the last node of the level into a heavier
\* node of the next level (whose left child is a node built in this scan)
C12_Witness ==
    /\ pc = "build_next_level"
    /\ i = Len(level)
    /\ next_level # <<>>
    /\ ~next_level[Len(next_level)].leaf
    /\ next_level[Len(next_level)].right = level[Len(level)]
    /\ \A p \in DOMAIN level : level[p] # next_level[Len(next_level)].left
    /\ next_level[Len(next_level)].left.weight > level[Len(level)].weight

\* build_next_level has scanned a level of two or more nodes and hands
\* the next level to build_tree
ScanOfLevelEnds ==
    /\ pc = "build_next_level"
    /\ pc' = "build_tree"
    /\ Len(level) >= 2

\* C13: build_tree terminates for every input with at least one byte:
\* each call of build_next_level on a level of n >= 2 nodes produces a
\* next level of at least 1 and at most n - 1 nodes, the last node of an
\* empty next level is never read, and the loop reaches a level of exactly
\* one node, which build_tree returns as the root.
C13_BuildTreeTerminates ==
    /\ [][ScanOfLevelEnds =>
             /\ Len(level') >= 1
             /\ Len(level') <= Len(level) - 1]_vars
    /\ [](pc # "panic_build_next_level")
    /\ (pc = "build_tree" /\ Len(input) >= 1)
          ~> (pc = "build_dictionary" /\ Len(level) = 1 /\ tree = level[1])

\* build_tree has returned the root of mississippi river, reached through
\* several levels
C13_Witness ==
    /\ pc = "build_dictionary"
    /\ input = Mississippi
    /\ Len(level) = 1
    /\ tree = level[1]
    /\ Depth(tree) >= 3
    /\ tree.weight = Len(input)

====
